---- MODULE Spec2Model ----
(***************************************************************************)
(* SmartSync (src/sync.py): a two-way directory synchronizer.              *)
(*                                                                         *)
(* The two directory trees are modelled as functions from paths to         *)
(* entries.  A path is a sequence of names, a name (like every string the  *)
(* program compares) is a sequence of atoms, so that str.startswith,       *)
(* str.endswith, == and os.path.join are computed, not assumed.            *)
(* Time is counted in whole seconds.                                       *)
(***************************************************************************)
EXTENDS Integers, Sequences, FiniteSets, TLC

\* Bounds of the model.
MaxMtime == 2      \* modification times of the initial files are 1..MaxMtime
MaxClock == 2      \* the clock runs from second 1 to second MaxClock
MaxRuns == 2       \* consecutive invocations of sync_folders

Sides == {"A", "B"}

Other(s) == IF s = "A" THEN "B" ELSE "A"

(***************************************************************************)
(* Strings.                                                                *)
(***************************************************************************)
Sep == <<"/">>

\* str.startswith
StartsWith(s, p) == Len(p) <= Len(s) /\ SubSeq(s, 1, Len(p)) = p

\* str.endswith
EndsWith(s, p) == Len(p) <= Len(s) /\ SubSeq(s, Len(s) - Len(p) + 1, Len(s)) = p

\* os.path.join(ign, ""): a trailing separator is added unless there is one
JoinEmpty(s) ==
    IF s = <<>> THEN <<>>
    ELSE IF s[Len(s)] = "/" THEN s ELSE s \o Sep

\* os.path.relpath(os.path.join(root, name), folder) for a path below folder
RECURSIVE RelPath(_)
RelPath(p) ==
    IF p = <<>> THEN <<".">>
    ELSE IF Len(p) = 1 THEN p[1]
    ELSE p[1] \o Sep \o RelPath(Tail(p))

\* The names of the model's trees.
NameA == <<"a">>
SyncLogs == <<".", "sync_logs">>

\* The reserved ignore entry the entry point appends: ".sync_logs/"
ReservedIgnore == <<".", "sync_logs", "/">>

Digits == <<"0", "1", "2", "3", "4", "5", "6", "7", "8", "9">>

\* str(n) of a natural number, as f-strings format it
RECURSIVE Str(_)
Str(n) ==
    IF n < 10 THEN <<Digits[n + 1]>>
    ELSE Str(n \div 10) \o <<Digits[(n % 10) + 1]>>

\* datetime.now().strftime("%Y-%m-%d_%H:%M:%S"): one stamp per clock second
Strftime(t) == Str(t)

\* log_filename = strftime(...) + "_sync.log"
LogFilename(t) == Strftime(t) \o <<"_sync", ".", "log">>

\* A log left by an invocation before the model's first second.
OldLog == LogFilename(0)

(***************************************************************************)
(* The filesystem.                                                         *)
(***************************************************************************)
Root == <<>>

Parent(p) == SubSeq(p, 1, Len(p) - 1)

\* os.path.basename
Basename(p) == p[Len(p)]

NoData == [who |-> "", what |-> <<>>]

DirEntry(t) == [kind |-> "dir", mtime |-> t, data |-> NoData]

FileEntry(t, d) == [kind |-> "file", mtime |-> t, data |-> d]

\* os.path.exists
Exists(tree, p) == p \in DOMAIN tree

\* os.path.isdir
IsDir(tree, p) == p \in DOMAIN tree /\ tree[p].kind = "dir"

IsFile(tree, p) == p \in DOMAIN tree /\ tree[p].kind = "file"

\* os.path.getmtime
GetMtime(tree, p) == tree[p].mtime

Children(tree, p) == {q \in DOMAIN tree : Len(q) = Len(p) + 1 /\ Parent(q) = p}

\* The proper prefixes of p, the root included.
Ancestors(p) == {SubSeq(p, 1, n) : n \in 0..(Len(p) - 1)}

\* os.makedirs(p, exist_ok=True) at time t: [ok, tree].  It raises when p
\* exists and is no directory, or when the nearest existing ancestor is no
\* directory; otherwise every missing directory down to p is created.
Makedirs(tree, p, t) ==
    IF Exists(tree, p) THEN [ok |-> IsDir(tree, p), tree |-> tree]
    ELSE
        LET have == {q \in Ancestors(p) : Exists(tree, q)}
            new == {q \in Ancestors(p) \cup {p} : ~Exists(tree, q)}
            top == CHOOSE q \in new : \A r \in new : Len(q) <= Len(r)
        IN  IF \E q \in have : ~IsDir(tree, q)
            THEN [ok |-> FALSE, tree |-> tree]
            ELSE [ok |-> TRUE,
                  tree |-> [q \in DOMAIN tree \cup new |->
                              IF q \in new THEN DirEntry(t)
                              ELSE IF top # Root /\ q = Parent(top)
                                   THEN [tree[q] EXCEPT !.mtime = t]
                                   ELSE tree[q]]]

\* Writing a regular file at p (open(p, "w") or shutil.copyfile's
\* destination) at time t with modification time m: [ok, tree].  It raises
\* when p is a directory or p's parent is no directory.
WriteFile(tree, p, m, d, t) ==
    IF IsDir(tree, p) \/ p = Root \/ ~IsDir(tree, Parent(p))
    THEN [ok |-> FALSE, tree |-> tree]
    ELSE [ok |-> TRUE,
          tree |-> [q \in DOMAIN tree \cup {p} |->
                      IF q = p THEN FileEntry(m, d)
                      ELSE IF q = Parent(p) /\ ~Exists(tree, p)
                           THEN [tree[q] EXCEPT !.mtime = t]
                           ELSE tree[q]]]

\* Mutant of Copy2: the destination is replaced whatever it is, a directory
\* and what it holds included.
Copy2_Replace(srcTree, sp, dstTree, dp, t) ==
    IF ~IsFile(srcTree, sp) \/ ~IsDir(dstTree, Parent(dp))
    THEN [ok |-> FALSE, tree |-> dstTree]
    ELSE LET keep == {q \in DOMAIN dstTree : dp \notin Ancestors(q)}
         IN  [ok |-> TRUE,
              tree |-> [q \in keep \cup {dp} |->
                          IF q = dp
                          THEN FileEntry(srcTree[sp].mtime, srcTree[sp].data)
                          ELSE dstTree[q]]]

\* Mutant of Copy2: shutil.copy, which leaves the destination with the
\* time of the copy.
Copy2_NoStat(srcTree, sp, dstTree, dp, t) ==
    IF ~IsFile(srcTree, sp) THEN [ok |-> FALSE, tree |-> dstTree]
    ELSE LET real == IF IsDir(dstTree, dp) THEN Append(dp, Basename(sp)) ELSE dp
         IN  WriteFile(dstTree, real, t, srcTree[sp].data, t)

\* shutil.copy2(src, dst) at time t: [ok, tree] for the destination tree.
\* A destination that is a directory stands for dst/basename(src); the
\* copy keeps the source's modification time.
Copy2(srcTree, sp, dstTree, dp, t) ==
    IF ~IsFile(srcTree, sp) THEN [ok |-> FALSE, tree |-> dstTree]
    ELSE LET real == IF IsDir(dstTree, dp) THEN Append(dp, Basename(sp)) ELSE dp
         IN  WriteFile(dstTree, real, srcTree[sp].mtime, srcTree[sp].data, t)

(***************************************************************************)
(* walk_folder.                                                            *)
(***************************************************************************)
\* Mutant of PrunedDir: the test rel_dir_path == ign is left out.
PrunedDir_NoExactMatch(p, ignore_files, ignore_hidden) ==
    \/ ignore_hidden /\ StartsWith(Basename(p), <<".">>)
    \/ \E ign \in ignore_files : StartsWith(RelPath(p), JoinEmpty(ign))

\* Lines 31-40: the directory at p is removed from dirs, so os.walk does
\* not descend into it.
PrunedDir(p, ignore_files, ignore_hidden) ==
    \/ ignore_hidden /\ StartsWith(Basename(p), <<".">>)
    \/ \E ign \in ignore_files :
          RelPath(p) = ign \/ StartsWith(RelPath(p), JoinEmpty(ign))

\* Lines 43-52: the file at p is left out of file_paths.
SkippedFile(p, ignore_files, ignore_extensions, ignore_hidden) ==
    \/ ignore_hidden /\ StartsWith(Basename(p), <<".">>)
    \/ \E ign \in ignore_files : RelPath(p) = ign
    \/ \E ext \in ignore_extensions : EndsWith(RelPath(p), ext)

\* One os.walk visit of directory d and, top-down, of the directories kept.
RECURSIVE WalkFrom(_, _, _, _, _)
WalkFrom(tree, d, ignore_files, ignore_extensions, ignore_hidden) ==
    LET dirs == {q \in Children(tree, d) : tree[q].kind = "dir"}
        files == Children(tree, d) \ dirs
        kept == {q \in dirs : ~PrunedDir(q, ignore_files, ignore_hidden)}
    IN  {f \in files :
            ~SkippedFile(f, ignore_files, ignore_extensions, ignore_hidden)}
        \cup UNION {WalkFrom(tree, q, ignore_files, ignore_extensions,
                             ignore_hidden) : q \in kept}

\* walk_folder(folder, ignore_files, ignore_extensions, ignore_hidden); the
\* order of the list is the order of the directory listing, which the
\* model leaves open by keeping the list as a set.
WalkFolder(tree, o) ==
    IF IsDir(tree, Root)
    THEN WalkFrom(tree, Root, o.ignore_files, o.ignore_extensions,
                  o.ignore_hidden)
    ELSE {}

\* The directories os.walk(rootA) reports in loop_folder: all of them.
AllDirs(tree) == {p \in DOMAIN tree : p # Root /\ tree[p].kind = "dir"}

(***************************************************************************)
(* The initial trees.                                                      *)
(***************************************************************************)
MkTree(S) == [p \in {e[1] : e \in S} |-> (CHOOSE e \in S : e[1] = p)[2]]

Data(s, p) == [who |-> s, what |-> p]

InnerChoices(s) ==
    { {},
      {<<(<<NameA, NameA>>), FileEntry(1, Data(s, <<NameA, NameA>>))>>},
      {<<(<<NameA, NameA>>), DirEntry(1)>>} }

AChoices(s) ==
    { {} }
    \cup { {<<(<<NameA>>), FileEntry(m, Data(s, <<NameA>>))>>} : m \in 1..MaxMtime }
    \cup { {<<(<<NameA>>), DirEntry(1)>>} \cup x : x \in InnerChoices(s) }

LogChoices(s) ==
    { {},
      {<<(<<SyncLogs>>), FileEntry(1, Data(s, <<SyncLogs>>))>>},
      {<<(<<SyncLogs>>), DirEntry(1)>>,
       <<(<<SyncLogs, OldLog>>), FileEntry(1, Data(s, <<SyncLogs, OldLog>>))>>} }

\* The trees one root can hold at invocation; the empty function is a
\* root that does not exist.
InitTrees(s) ==
    { MkTree({}) }
    \cup { MkTree({<<Root, DirEntry(1)>>} \cup x \cup y) :
             x \in AChoices(s), y \in LogChoices(s) }

\* The command line's and the caller's arguments.
UserIgnoreChoices == { {}, {<<"a">>}, {<<"a", "/">>} }

ExtensionChoices == { {}, {<<".", "log">>} }

DefaultOptions ==
    [sync_most_recent |-> FALSE, ignore_files |-> {},
     ignore_extensions |-> {}, ignore_hidden |-> TRUE]

(***************************************************************************)
(* The state.                                                              *)
(***************************************************************************)
VARIABLES
    fs,             \* fs[s]: the tree under root s
    now,            \* the clock, in seconds
    pc,             \* where the program is
    entry,          \* "main": run from the command line; "call": sync_folders called
    opts,           \* the arguments of sync_folders
    run,            \* how many times sync_folders has been entered
    pending,        \* loop_folder: the directories os.walk has still to report
    folderA_files,  \* line 102
    folderB_files,  \* line 103
    todo,           \* loop_files: the files the for loop has not visited yet
    synced_A_to_B,  \* line 155
    synced_B_to_A,  \* line 161
    raised,         \* the function an uncaught exception was raised in
    log_saved,      \* the roots this run's log file was written under
    exit_status,    \* the exit status of the command line's process, -1 while it runs
    start,          \* line 154: time.time() before the copy passes
    log_filename,   \* line 171, <<>> until the line is reached
    fs0             \* the trees when the current invocation began

vars == <<fs, now, pc, entry, opts, run, pending, folderA_files, folderB_files,
          todo, synced_A_to_B, synced_B_to_A, raised, log_saved, exit_status,
          start, log_filename, fs0>>

Init ==
    /\ fs \in [Sides -> UNION {InitTrees(s) : s \in Sides}]
    /\ \A s \in Sides : fs[s] \in InitTrees(s)
    /\ now = 1
    /\ pc = "start"
    /\ entry = ""
    /\ opts = DefaultOptions
    /\ run = 0
    /\ pending = {}
    /\ folderA_files = {}
    /\ folderB_files = {}
    /\ todo = {}
    /\ synced_A_to_B = <<>>
    /\ synced_B_to_A = <<>>
    /\ raised = "none"
    /\ log_saved = {}
    /\ exit_status = -1
    /\ start = 0
    /\ log_filename = <<>>
    /\ fs0 = fs

(***************************************************************************)
(* sync_folders.                                                           *)
(***************************************************************************)
\* Lines 59-99: sync_folders is entered with arguments o and loop_folder
\* starts to walk folderA.
EnterSyncFolders(o) ==
    /\ opts' = o
    /\ run' = run + 1
    /\ pc' = "mirrorAB"
    /\ pending' = AllDirs(fs["A"])
    /\ folderA_files' = {}
    /\ folderB_files' = {}
    /\ todo' = {}
    /\ synced_A_to_B' = <<>>
    /\ synced_B_to_A' = <<>>
    /\ raised' = "none"
    /\ log_saved' = {}
    /\ log_filename' = <<>>
    /\ fs0' = fs
    /\ UNCHANGED <<fs, now, start>>

\* An exception nothing catches leaves sync_folders and ends the process.
Raise(where) ==
    /\ raised' = where
    /\ pc' = "aborted"
    /\ exit_status' = IF entry = "main" THEN 1 ELSE exit_status

\* Mutant of MissingRoot: only folder A is tested.
MissingRoot_OnlyA(f) == ~Exists(f["A"], Root)

\* Lines 247-252: the entry point's test of the two roots.
MissingRoot(f) == ~Exists(f["A"], Root) \/ ~Exists(f["B"], Root)

\* Lines 246-274: the command line entry point.  --ignore_hidden is a
\* store_true flag whose default is True, so args.ignore_hidden is True.
Main ==
    /\ pc = "start"
    /\ entry' = "main"
    /\ IF MissingRoot(fs)
       THEN /\ pc' = "exit"
            /\ exit_status' = 1
            /\ UNCHANGED <<fs, now, opts, run, pending, folderA_files,
                           folderB_files, todo, synced_A_to_B, synced_B_to_A,
                           raised, log_saved, start, log_filename, fs0>>
       ELSE /\ \E smr \in BOOLEAN, ign \in UserIgnoreChoices,
                  ext \in ExtensionChoices :
                  EnterSyncFolders([sync_most_recent |-> smr,
                                    ignore_files |-> ign \cup {ReservedIgnore},
                                    ignore_extensions |-> ext,
                                    ignore_hidden |-> TRUE])
            /\ UNCHANGED exit_status

\* Lines 59-66: sync_folders called by a program of its own with
\* ignore_hidden=False, the value the command line cannot pass, and the
\* reserved entry in ignore_files as the entry point passes it.
Call ==
    /\ pc = "start"
    /\ entry' = "call"
    /\ \E smr \in BOOLEAN, ign \in UserIgnoreChoices,
          ext \in ExtensionChoices :
          EnterSyncFolders([sync_most_recent |-> smr,
                            ignore_files |-> ign \cup {ReservedIgnore},
                            ignore_extensions |-> ext,
                            ignore_hidden |-> FALSE])
    /\ UNCHANGED exit_status

\* Mutant of LoopFolder: os.makedirs(target_dir_path) with neither the test
\* of line 95 nor exist_ok, which raises for a path that exists.
LoopFolder_NoExistsTest(at, src, dst) ==
    /\ pc = at
    /\ \E p \in pending :
        /\ \A q \in pending : Len(p) <= Len(q)
        /\ pending' = pending \ {p}
        /\ LET m == IF Exists(fs[dst], p)
                    THEN [ok |-> FALSE, tree |-> fs[dst]]
                    ELSE Makedirs(fs[dst], p, now)
           IN  /\ fs' = [fs EXCEPT ![dst] = m.tree]
               /\ IF m.ok
                  THEN UNCHANGED <<pc, raised, exit_status>>
                  ELSE Raise("loop_folder")
    /\ UNCHANGED <<now, entry, opts, run, folderA_files, folderB_files, todo,
                   synced_A_to_B, synced_B_to_A, log_saved, start,
                   log_filename, fs0>>

\* Lines 91-96, one directory d of loop_folder(src, dst).  os.walk reports a
\* directory's sub-directories after the directory itself.
LoopFolder(at, src, dst) ==
    /\ pc = at
    /\ \E p \in pending :
        /\ \A q \in pending : Len(p) <= Len(q)
        /\ pending' = pending \ {p}
        /\ IF Exists(fs[dst], p)
           THEN UNCHANGED <<fs, pc, raised, exit_status>>
           ELSE LET m == Makedirs(fs[dst], p, now)
                IN  /\ fs' = [fs EXCEPT ![dst] = m.tree]
                    /\ IF m.ok
                       THEN UNCHANGED <<pc, raised, exit_status>>
                       ELSE Raise("loop_folder")
    /\ UNCHANGED <<now, entry, opts, run, folderA_files, folderB_files, todo,
                   synced_A_to_B, synced_B_to_A, log_saved, start,
                   log_filename, fs0>>

\* Line 100: loop_folder(folderA, folderB) has returned.
MirrorBack ==
    /\ pc = "mirrorAB"
    /\ pending = {}
    /\ pc' = "mirrorBA"
    /\ pending' = AllDirs(fs["B"])
    /\ UNCHANGED <<fs, now, entry, opts, run, folderA_files, folderB_files,
                   todo, synced_A_to_B, synced_B_to_A, raised, log_saved,
                   exit_status, start, log_filename, fs0>>

\* Mutant of WalkFolders: the lists are taken while loop_folder(folderB,
\* folderA) still has directories to visit.
WalkFolders_BeforeMirrorBack ==
    /\ pc = "mirrorBA"
    /\ folderA_files' = WalkFolder(fs["A"], opts)
    /\ folderB_files' = WalkFolder(fs["B"], opts)
    /\ todo' = folderA_files'
    /\ start' = now
    /\ pc' = "copyAB"
    /\ UNCHANGED <<fs, now, entry, opts, run, pending, synced_A_to_B,
                   synced_B_to_A, raised, log_saved, exit_status,
                   log_filename, fs0>>

\* Lines 101-103 and 153-160: both lists are taken, then loop_files starts
\* on folderA_files.
WalkFolders ==
    /\ pc = "mirrorBA"
    /\ pending = {}
    /\ folderA_files' = WalkFolder(fs["A"], opts)
    /\ folderB_files' = WalkFolder(fs["B"], opts)
    /\ todo' = folderA_files'
    /\ start' = now
    /\ pc' = "copyAB"
    /\ UNCHANGED <<fs, now, entry, opts, run, pending, synced_A_to_B,
                   synced_B_to_A, raised, log_saved, exit_status,
                   log_filename, fs0>>

\* Mutant of SyncFile: the modification times are compared with >=.
SyncFile_NotStrict(srcTree, dstTree, file, sync_most_recent, t) ==
    IF ~Exists(dstTree, file)
    THEN LET m == Makedirs(dstTree, Parent(file), t)
             c == Copy2(srcTree, file, m.tree, file, t)
         IN  IF ~m.ok THEN [ok |-> FALSE, tree |-> dstTree, status |-> ""]
             ELSE [ok |-> c.ok, tree |-> c.tree, status |-> "new"]
    ELSE IF sync_most_recent
              /\ GetMtime(srcTree, file) >= GetMtime(dstTree, file)
         THEN LET c == Copy2(srcTree, file, dstTree, file, t)
              IN  [ok |-> c.ok, tree |-> c.tree, status |-> "more recent"]
         ELSE [ok |-> TRUE, tree |-> dstTree, status |-> ""]

\* Mutant of SyncFile: a file the target lacks is not copied.
SyncFile_RecentOnly(srcTree, dstTree, file, sync_most_recent, t) ==
    IF Exists(dstTree, file) /\ sync_most_recent
          /\ GetMtime(srcTree, file) > GetMtime(dstTree, file)
    THEN LET c == Copy2(srcTree, file, dstTree, file, t)
         IN  [ok |-> c.ok, tree |-> c.tree, status |-> "more recent"]
    ELSE [ok |-> TRUE, tree |-> dstTree, status |-> ""]

\* Mutant of SyncFile: the elif of line 146 does not test sync_most_recent.
SyncFile_AlwaysRecent(srcTree, dstTree, file, sync_most_recent, t) ==
    IF ~Exists(dstTree, file)
    THEN LET m == Makedirs(dstTree, Parent(file), t)
             c == Copy2(srcTree, file, m.tree, file, t)
         IN  IF ~m.ok THEN [ok |-> FALSE, tree |-> dstTree, status |-> ""]
             ELSE [ok |-> c.ok, tree |-> c.tree, status |-> "new"]
    ELSE IF GetMtime(srcTree, file) > GetMtime(dstTree, file)
         THEN LET c == Copy2(srcTree, file, dstTree, file, t)
              IN  [ok |-> c.ok, tree |-> c.tree, status |-> "more recent"]
         ELSE [ok |-> TRUE, tree |-> dstTree, status |-> ""]

\* Lines 139-150 for one file of loop_files(files, src, dst): [ok, tree,
\* status], status "" when nothing is copied.
SyncFile(srcTree, dstTree, file, sync_most_recent, t) ==
    IF ~Exists(dstTree, file)
    THEN LET m == Makedirs(dstTree, Parent(file), t)
             c == Copy2(srcTree, file, m.tree, file, t)
         IN  IF ~m.ok THEN [ok |-> FALSE, tree |-> dstTree, status |-> ""]
             ELSE [ok |-> c.ok, tree |-> c.tree, status |-> "new"]
    ELSE IF sync_most_recent
              /\ GetMtime(srcTree, file) > GetMtime(dstTree, file)
         THEN LET c == Copy2(srcTree, file, dstTree, file, t)
              IN  [ok |-> c.ok, tree |-> c.tree, status |-> "more recent"]
         ELSE [ok |-> TRUE, tree |-> dstTree, status |-> ""]

\* Mutant of LoopFiles: a failed copy is caught and the loop goes on.
LoopFiles_Continue(at, src, dst) ==
    /\ pc = at
    /\ \E file \in todo :
        LET r == SyncFile(fs[src], fs[dst], file, opts.sync_most_recent, now)
            done == IF r.ok /\ r.status # "" THEN << <<file, r.status>> >> ELSE <<>>
        IN  /\ fs' = [fs EXCEPT ![dst] = r.tree]
            /\ todo' = todo \ {file}
            /\ raised' = IF r.ok THEN raised ELSE "loop_files"
            /\ IF src = "A"
               THEN /\ synced_A_to_B' = synced_A_to_B \o done
                    /\ UNCHANGED synced_B_to_A
               ELSE /\ synced_B_to_A' = synced_B_to_A \o done
                    /\ UNCHANGED synced_A_to_B
            /\ UNCHANGED <<pc, exit_status>>
    /\ UNCHANGED <<now, entry, opts, run, pending, folderA_files,
                   folderB_files, log_saved, start, log_filename, fs0>>

\* One iteration of the for loop of loop_files(files, src, dst).
LoopFiles(at, src, dst) ==
    /\ pc = at
    /\ \E file \in todo :
        LET r == SyncFile(fs[src], fs[dst], file, opts.sync_most_recent, now)
            done == IF r.status = "" THEN <<>> ELSE << <<file, r.status>> >>
        IN  /\ fs' = [fs EXCEPT ![dst] = r.tree]
            /\ IF r.ok
               THEN /\ todo' = todo \ {file}
                    /\ IF src = "A"
                       THEN /\ synced_A_to_B' = synced_A_to_B \o done
                            /\ UNCHANGED synced_B_to_A
                       ELSE /\ synced_B_to_A' = synced_B_to_A \o done
                            /\ UNCHANGED synced_A_to_B
                    /\ UNCHANGED <<pc, raised, exit_status>>
               ELSE /\ Raise("loop_files")
                    /\ todo' = todo \ {file}
                    /\ UNCHANGED <<synced_A_to_B, synced_B_to_A>>
    /\ UNCHANGED <<now, entry, opts, run, pending, folderA_files,
                   folderB_files, log_saved, start, log_filename, fs0>>

\* Lines 155-161: loop_files(folderA_files, ...) has returned.
CopyBack ==
    /\ pc = "copyAB"
    /\ todo = {}
    /\ pc' = "copyBA"
    /\ todo' = folderB_files
    /\ UNCHANGED <<fs, now, entry, opts, run, pending, folderA_files,
                   folderB_files, synced_A_to_B, synced_B_to_A, raised,
                   log_saved, exit_status, start, log_filename, fs0>>

\* Lines 178-195: what is written to the log file.
Bool(b) == IF b THEN "True" ELSE "False"

DecisionLines(synced, src, dst) ==
    [i \in 1..Len(synced) |->
        <<"Because of", synced[i][2], src, dst>> \o RelPath(synced[i][1])]

LogData(o, files, sAB, sBA, full_time) ==
    [who |-> "log",
     what |-> << <<"sync_most_recent", Bool(o.sync_most_recent)>>,
                 <<"ignore_hidden", Bool(o.ignore_hidden)>>,
                 <<"Synced">> \o Str(files) \o <<"copied">>
                    \o Str(Len(sAB) + Len(sBA)) \o <<"in">> \o Str(full_time) >>
              \o DecisionLines(sAB, "A", "B") \o DecisionLines(sBA, "B", "A")]

\* Lines 172-175: the reserved directory is made where it is missing.
EnsureLogDir(tree, t) ==
    IF ~Exists(tree, <<SyncLogs>>)
    THEN Makedirs(tree, <<SyncLogs>>, t)
    ELSE [ok |-> TRUE, tree |-> tree]

\* Mutant of SaveLogs: the log is written under folderA and not copied
\* under folderB.
SaveLogs_NoCopy ==
    /\ pc = "copyBA"
    /\ todo = {}
    /\ log_filename' = LogFilename(now)
    /\ LET path == <<SyncLogs, log_filename'>>
           mA == EnsureLogDir(fs["A"], now)
           mB == EnsureLogDir(fs["B"], now)
           data == LogData(opts,
                           Cardinality(folderA_files) + Cardinality(folderB_files),
                           synced_A_to_B, synced_B_to_A, now - start)
           w == WriteFile(mA.tree, path, now, data, now)
           c == Copy2(w.tree, path, mB.tree, path, now)
       IN  IF ~mA.ok
           THEN /\ Raise("save_logs")
                /\ UNCHANGED <<fs, log_saved>>
           ELSE IF ~mB.ok
           THEN /\ Raise("save_logs")
                /\ fs' = [fs EXCEPT !["A"] = mA.tree]
                /\ UNCHANGED log_saved
           ELSE IF ~w.ok
           THEN /\ Raise("save_logs")
                /\ fs' = [fs EXCEPT !["A"] = mA.tree, !["B"] = mB.tree]
                /\ UNCHANGED log_saved
           ELSE IF ~c.ok
           THEN /\ Raise("save_logs")
                /\ fs' = [fs EXCEPT !["A"] = w.tree, !["B"] = mB.tree]
                /\ log_saved' = {"A"}
           ELSE /\ fs' = [fs EXCEPT !["A"] = w.tree, !["B"] = mB.tree]
                /\ log_saved' = {"A"}
                /\ pc' = "done"
                /\ raised' = raised
                /\ exit_status' = IF entry = "main" THEN 0 ELSE exit_status
    /\ UNCHANGED <<now, entry, opts, run, pending, folderA_files,
                   folderB_files, todo, synced_A_to_B, synced_B_to_A, start,
                   fs0>>

\* Mutant of SaveLogs: the log is named by the time taken at line 154.
SaveLogs_NamedByStart ==
    /\ pc = "copyBA"
    /\ todo = {}
    /\ log_filename' = LogFilename(start)
    /\ LET path == <<SyncLogs, log_filename'>>
           mA == EnsureLogDir(fs["A"], now)
           mB == EnsureLogDir(fs["B"], now)
           data == LogData(opts,
                           Cardinality(folderA_files) + Cardinality(folderB_files),
                           synced_A_to_B, synced_B_to_A, now - start)
           w == WriteFile(mA.tree, path, now, data, now)
           c == Copy2(w.tree, path, mB.tree, path, now)
       IN  IF ~mA.ok
           THEN /\ Raise("save_logs")
                /\ UNCHANGED <<fs, log_saved>>
           ELSE IF ~mB.ok
           THEN /\ Raise("save_logs")
                /\ fs' = [fs EXCEPT !["A"] = mA.tree]
                /\ UNCHANGED log_saved
           ELSE IF ~w.ok
           THEN /\ Raise("save_logs")
                /\ fs' = [fs EXCEPT !["A"] = mA.tree, !["B"] = mB.tree]
                /\ UNCHANGED log_saved
           ELSE IF ~c.ok
           THEN /\ Raise("save_logs")
                /\ fs' = [fs EXCEPT !["A"] = w.tree, !["B"] = mB.tree]
                /\ log_saved' = {"A"}
           ELSE /\ fs' = [fs EXCEPT !["A"] = w.tree, !["B"] = c.tree]
                /\ log_saved' = {"A", "B"}
                /\ pc' = "done"
                /\ raised' = raised
                /\ exit_status' = IF entry = "main" THEN 0 ELSE exit_status
    /\ UNCHANGED <<now, entry, opts, run, pending, folderA_files,
                   folderB_files, todo, synced_A_to_B, synced_B_to_A, start,
                   fs0>>

\* Lines 168-206: loop_files(folderB_files, ...) has returned; the log is
\* written under folderA and copied under folderB.
SaveLogs ==
    /\ pc = "copyBA"
    /\ todo = {}
    /\ log_filename' = LogFilename(now)
    /\ LET path == <<SyncLogs, log_filename'>>
           mA == EnsureLogDir(fs["A"], now)
           mB == EnsureLogDir(fs["B"], now)
           data == LogData(opts,
                           Cardinality(folderA_files) + Cardinality(folderB_files),
                           synced_A_to_B, synced_B_to_A, now - start)
           w == WriteFile(mA.tree, path, now, data, now)
           c == Copy2(w.tree, path, mB.tree, path, now)
       IN  IF ~mA.ok
           THEN /\ Raise("save_logs")
                /\ UNCHANGED <<fs, log_saved>>
           ELSE IF ~mB.ok
           THEN /\ Raise("save_logs")
                /\ fs' = [fs EXCEPT !["A"] = mA.tree]
                /\ UNCHANGED log_saved
           ELSE IF ~w.ok
           THEN /\ Raise("save_logs")
                /\ fs' = [fs EXCEPT !["A"] = mA.tree, !["B"] = mB.tree]
                /\ UNCHANGED log_saved
           ELSE IF ~c.ok
           THEN /\ Raise("save_logs")
                /\ fs' = [fs EXCEPT !["A"] = w.tree, !["B"] = mB.tree]
                /\ log_saved' = {"A"}
           ELSE /\ fs' = [fs EXCEPT !["A"] = w.tree, !["B"] = c.tree]
                /\ log_saved' = {"A", "B"}
                /\ pc' = "done"
                /\ raised' = raised
                /\ exit_status' = IF entry = "main" THEN 0 ELSE exit_status
    /\ UNCHANGED <<now, entry, opts, run, pending, folderA_files,
                   folderB_files, todo, synced_A_to_B, synced_B_to_A, start,
                   fs0>>

\* The same invocation is made again after a run that completed.
Again ==
    /\ pc = "done"
    /\ run < MaxRuns
    /\ EnterSyncFolders(opts)
    /\ exit_status' = -1
    /\ UNCHANGED entry

\* A second passes.
Tick ==
    /\ now < MaxClock
    /\ pc \notin {"exit", "aborted"}
    /\ now' = now + 1
    /\ UNCHANGED <<fs, pc, entry, opts, run, pending, folderA_files,
                   folderB_files, todo, synced_A_to_B, synced_B_to_A, raised,
                   log_saved, exit_status, start, log_filename, fs0>>

Next ==
    \/ Main
    \/ Call
    \/ LoopFolder("mirrorAB", "A", "B")
    \/ MirrorBack
    \/ LoopFolder("mirrorBA", "B", "A")
    \/ WalkFolders
    \/ LoopFiles("copyAB", "A", "B")
    \/ CopyBack
    \/ LoopFiles("copyBA", "B", "A")
    \/ SaveLogs
    \/ Again
    \/ Tick

Spec == Init /\ [][Next]_vars

(***************************************************************************)
(* walk_folder and loop_folder over trees with symbolic links.  os.walk is *)
(* taken one directory at a time: pending holds the directories it has     *)
(* still to visit, as the paths os.walk builds (top joined with the names  *)
(* it goes through), folderA_files is walk_folder's file_paths.            *)
(***************************************************************************)
NameD == <<"d">>
NameF == <<"f">>
NameUp == <<"u", "p">>
NameLd == <<"l", "d">>
NameL1 == <<"l", "1">>
NameL2 == <<"l", "2">>

\* A symbolic link whose target is the path to, from the root.
LinkEntry(to) == [kind |-> "link", mtime |-> 1, data |-> [who |-> "link", what |-> to]]

Links(tree) == {q \in DOMAIN tree : tree[q].kind = "link"}

\* What a path that cannot be resolved (ELOOP) stands for: no entry.
Unresolved == << <<>> >>

\* The entry the path p leads to when every link on the way, the last
\* name included, is followed; hops bounds the links followed in a row.
RECURSIVE Realpath(_, _, _)
Realpath(tree, p, hops) ==
    IF p = Root THEN Root
    ELSE LET up == Realpath(tree, Parent(p), hops)
             q == Append(up, Basename(p))
         IN  IF up = Unresolved THEN Unresolved
             ELSE IF q \notin DOMAIN tree THEN q
             ELSE IF tree[q].kind # "link" THEN q
             ELSE IF hops = 0 THEN Unresolved
             ELSE Realpath(tree, tree[q].data.what, hops - 1)

Resolve(tree, p) == Realpath(tree, p, Cardinality(Links(tree)))

\* os.path.islink(p): the last name of p is a link, not followed.
IsLink(tree, p) ==
    /\ p # Root
    /\ LET up == Resolve(tree, Parent(p))
       IN  up # Unresolved /\ Append(up, Basename(p)) \in Links(tree)

\* os.scandir's entry.is_dir(): links are followed.
IsDirFollow(tree, p) == IsDir(tree, Resolve(tree, p))

\* The entries os.scandir(p) reports, as the paths os.walk joins.
ScanDir(tree, p) ==
    LET real == Resolve(tree, p)
    IN  IF real = Unresolved THEN {}
        ELSE {Append(p, Basename(q)) : q \in Children(tree, real)}

\* Mutant of Descends: os.walk(folder, followlinks=True).
Descends_FollowLinks(tree, p) == TRUE

\* os.walk(folder), followlinks left False: a directory of dirs is
\* visited unless it is a link.
Descends(tree, p) == ~IsLink(tree, p)

\* The trees with links under folder A: a directory d holding a file f,
\* and any of: d/up -> the root, ld -> d, l1 -> l2 with l2 -> l1.
UpLink == {<<(<<NameD, NameUp>>), LinkEntry(Root)>>}

LdLink == {<<(<<NameLd>>), LinkEntry(<<NameD>>)>>}

LoopLinks == {<<(<<NameL1>>), LinkEntry(<<NameL2>>)>>,
              <<(<<NameL2>>), LinkEntry(<<NameL1>>)>>}

LinkTrees ==
    { MkTree({<<Root, DirEntry(1)>>, <<(<<NameD>>), DirEntry(1)>>,
              <<(<<NameD, NameF>>), FileEntry(1, Data("A", <<NameD, NameF>>))>>}
             \cup x \cup y \cup z \cup w) :
        x \in {{}, UpLink}, y \in {{}, LdLink}, z \in {{}, LoopLinks},
        w \in LogChoices("A") }

\* The trees under folder B: the root and what LogChoices puts in it.
PlainTrees == { MkTree({<<Root, DirEntry(1)>>} \cup y) : y \in LogChoices("B") }

LinkInit ==
    /\ fs \in [Sides -> LinkTrees \cup PlainTrees]
    /\ fs["A"] \in LinkTrees
    /\ fs["B"] \in PlainTrees
    /\ now = 1
    /\ pc = "start"
    /\ entry = ""
    /\ opts = DefaultOptions
    /\ run = 0
    /\ pending = {}
    /\ folderA_files = {}
    /\ folderB_files = {}
    /\ todo = {}
    /\ synced_A_to_B = <<>>
    /\ synced_B_to_A = <<>>
    /\ raised = "none"
    /\ log_saved = {}
    /\ exit_status = -1
    /\ start = 0
    /\ log_filename = <<>>
    /\ fs0 = fs

\* Line 27, first iteration pending: walk_folder(folderA, ...) is entered.
WalkFolderEnter ==
    /\ pc = "start"
    /\ \E ign \in {{}, {NameLd}}, hid \in BOOLEAN :
          opts' = [DefaultOptions EXCEPT !.ignore_files = ign,
                                         !.ignore_hidden = hid]
    /\ pending' = {Root}
    /\ folderA_files' = {}
    /\ pc' = "walk_folder"
    /\ UNCHANGED <<fs, now, entry, run, folderB_files, todo, synced_A_to_B,
                   synced_B_to_A, raised, log_saved, exit_status, start,
                   log_filename, fs0>>

\* Lines 27-54: one iteration of for root, dirs, files in os.walk(folder).
WalkFolderStep ==
    /\ pc = "walk_folder"
    /\ \E p \in pending :
        LET tree == fs["A"]
            dirs == {q \in ScanDir(tree, p) : IsDirFollow(tree, q)}
            files == ScanDir(tree, p) \ dirs
            kept == {q \in dirs :
                        ~PrunedDir(q, opts.ignore_files, opts.ignore_hidden)}
        IN  /\ folderA_files' = folderA_files \cup
                  {f \in files : ~SkippedFile(f, opts.ignore_files,
                                              opts.ignore_extensions,
                                              opts.ignore_hidden)}
            /\ pending' = (pending \ {p}) \cup {q \in kept : Descends(tree, q)}
    /\ UNCHANGED <<fs, now, pc, entry, opts, run, folderB_files, todo,
                   synced_A_to_B, synced_B_to_A, raised, log_saved,
                   exit_status, start, log_filename, fs0>>

\* Line 56: os.walk is exhausted and walk_folder returns file_paths.
WalkFolderReturn ==
    /\ pc = "walk_folder"
    /\ pending = {}
    /\ pc' = "walked"
    /\ UNCHANGED <<fs, now, entry, opts, run, pending, folderA_files,
                   folderB_files, todo, synced_A_to_B, synced_B_to_A, raised,
                   log_saved, exit_status, start, log_filename, fs0>>

\* Line 91, first iteration pending: loop_folder(folderA, folderB).
LoopFolderEnter ==
    /\ pc = "walked"
    /\ pending' = {Root}
    /\ pc' = "loop_folder"
    /\ UNCHANGED <<fs, now, entry, opts, run, folderA_files, folderB_files,
                   todo, synced_A_to_B, synced_B_to_A, raised, log_saved,
                   exit_status, start, log_filename, fs0>>

\* Lines 92-96 for the directories ds of one os.walk iteration, all of them
\* entries of one directory: those the tree lacks are made.
MakeAll(tree, ds, t) ==
    LET made == {Makedirs(tree, d, t).tree : d \in ds}
        paths == DOMAIN tree \cup UNION {DOMAIN m : m \in made}
        changed(q) == {m \in made : q \in DOMAIN m /\
                                    (q \notin DOMAIN tree \/ m[q] # tree[q])}
    IN  [q \in paths |-> IF changed(q) = {} THEN tree[q]
                         ELSE (CHOOSE m \in changed(q) : TRUE)[q]]

\* Lines 91-96: one iteration of for root, dirs, _ in os.walk(rootA).  When
\* a makedirs raises, the directories listed before it have been made.
LoopFolderStep ==
    /\ pc = "loop_folder"
    /\ \E p \in pending :
        LET tree == fs["A"]
            dirs == {q \in ScanDir(tree, p) : IsDirFollow(tree, q)}
            missing == {q \in dirs : ~Exists(fs["B"], q)}
            fails == {q \in missing : ~Makedirs(fs["B"], q, now).ok}
        IN  IF fails = {}
            THEN /\ fs' = [fs EXCEPT !["B"] = MakeAll(fs["B"], missing, now)]
                 /\ pending' = (pending \ {p})
                                   \cup {q \in dirs : Descends(tree, q)}
                 /\ UNCHANGED <<pc, raised, exit_status>>
            ELSE /\ \E before \in SUBSET (missing \ fails) :
                        fs' = [fs EXCEPT !["B"] = MakeAll(fs["B"], before, now)]
                 /\ Raise("loop_folder")
                 /\ UNCHANGED pending
    /\ UNCHANGED <<now, entry, opts, run, folderA_files, folderB_files, todo,
                   synced_A_to_B, synced_B_to_A, log_saved, start,
                   log_filename, fs0>>

\* Line 96 is left for the last time: loop_folder returns.
LoopFolderReturn ==
    /\ pc = "loop_folder"
    /\ pending = {}
    /\ pc' = "mirrored"
    /\ UNCHANGED <<fs, now, entry, opts, run, pending, folderA_files,
                   folderB_files, todo, synced_A_to_B, synced_B_to_A, raised,
                   log_saved, exit_status, start, log_filename, fs0>>

LinkNext ==
    \/ WalkFolderEnter
    \/ WalkFolderStep
    \/ WalkFolderReturn
    \/ LoopFolderEnter
    \/ LoopFolderStep
    \/ LoopFolderReturn

\* Python runs the loops on: a step that can be taken is taken.
LinkSpec == LinkInit /\ [][LinkNext]_vars /\ WF_vars(LinkNext)

(***************************************************************************)
(* Notions the properties are stated with.                                 *)
(***************************************************************************)
\* The files of a decision list.
Decided(synced) == {synced[i][1] : i \in DOMAIN synced}

\* How many decisions a list holds for file p.
Count(synced, p) == Cardinality({i \in DOMAIN synced : synced[i][1] = p})

\* The run has gone through both copy passes and saved its log.
Completed == pc = "done"

\* The paths below the reserved directory of a root.
InSyncLogs(p) == Len(p) >= 2 /\ p[1] = SyncLogs

\* A path that is a file under one root and a directory under the other.
KindConflict(f) ==
    \E p \in DOMAIN f["A"] \cap DOMAIN f["B"] : f["A"][p].kind # f["B"][p].kind

(***************************************************************************)
(* C1. Idempotence: when sync_folders has run to completion and is run     *)
(* again with the same options on the trees it left, the second run        *)
(* records no decision in either direction and copies no file.             *)
(***************************************************************************)
C1_Idempotence ==
    run >= 2 =>
        /\ synced_A_to_B = <<>>
        /\ synced_B_to_A = <<>>
        /\ \A s \in Sides : \A p \in DOMAIN fs[s] :
               (fs[s][p].kind = "file" /\ fs[s][p].data.who # "log")
                   => (p \in DOMAIN fs0[s] /\ fs0[s][p] = fs[s][p])

(***************************************************************************)
(* C2. File-set convergence: after a complete run the visible files under  *)
(* root A are the visible files under root B.                              *)
(***************************************************************************)
C2_FileSetConvergence ==
    Completed => WalkFolder(fs["A"], opts) = WalkFolder(fs["B"], opts)

(***************************************************************************)
(* C3. Filter correctness: a file whose relative path ends with an         *)
(* ignore_extensions entry, or equals an ignore_files entry, or lies       *)
(* beneath a directory whose relative path is an ignore_files entry, or    *)
(* (with ignore_hidden) whose name or an ancestor's name starts with ".",  *)
(* is in neither file list and in no decision of either direction.         *)
(***************************************************************************)
HasIgnoredExtension(p, o) ==
    \E ext \in o.ignore_extensions : EndsWith(RelPath(p), ext)

IsIgnoredFile(p, o) == RelPath(p) \in o.ignore_files

BeneathIgnoredDir(p, o) ==
    \E n \in 1..(Len(p) - 1) : RelPath(SubSeq(p, 1, n)) \in o.ignore_files

IsHidden(p, o) == o.ignore_hidden /\ \E i \in 1..Len(p) : Head(p[i]) = "."

Ignored(p, o) ==
    \/ HasIgnoredExtension(p, o)
    \/ IsIgnoredFile(p, o)
    \/ BeneathIgnoredDir(p, o)
    \/ IsHidden(p, o)

C4_LogSelfExclusion ==
    ReservedIgnore \in opts.ignore_files =>
        \A p \in folderA_files \cup folderB_files
                 \cup Decided(synced_A_to_B) \cup Decided(synced_B_to_A) :
            ~InSyncLogs(p)

(***************************************************************************)
(* C5. Recency propagation gating: for a visible path that is a file under *)
(* both roots, A's copy strictly newer: a complete run without             *)
(* sync_most_recent records no decision for the path and leaves B's copy   *)
(* as it was; a complete run with sync_most_recent records exactly one     *)
(* decision for it over both directions, ("more recent", A to B), and      *)
(* B's content is then A's.                                                *)
(***************************************************************************)
NewerOnA(p) ==
    /\ p \in WalkFolder(fs0["A"], opts)
    /\ IsFile(fs0["B"], p)
    /\ GetMtime(fs0["A"], p) > GetMtime(fs0["B"], p)

C5_RecencyGating ==
    Completed =>
        \A p \in DOMAIN fs0["A"] :
            NewerOnA(p) =>
                IF opts.sync_most_recent
                THEN /\ Count(synced_A_to_B, p) = 1
                     /\ \A i \in DOMAIN synced_A_to_B :
                            synced_A_to_B[i][1] = p
                                => synced_A_to_B[i][2] = "more recent"
                     /\ Count(synced_B_to_A, p) = 0
                     /\ fs["B"][p].data = fs0["A"][p].data
                     /\ fs["A"][p] = fs0["A"][p]
                ELSE /\ Count(synced_A_to_B, p) = 0
                     /\ Count(synced_B_to_A, p) = 0
                     /\ fs["B"][p] = fs0["B"][p]

\* A completed run with sync_most_recent over a file newer under A.
C5_Witness ==
    /\ Completed
    /\ opts.sync_most_recent
    /\ \E p \in DOMAIN fs0["A"] : NewerOnA(p) /\ fs["B"][p] # fs0["B"][p]

(***************************************************************************)
(* C6. New-file propagation: for a visible file under A with no entry at   *)
(* its relative path under B, a complete run records exactly one decision  *)
(* for the path over both directions, ("new", A to B), and the file is     *)
(* then under B with A's content.                                          *)
(***************************************************************************)
OnlyOnA(p) ==
    /\ p \in WalkFolder(fs0["A"], opts)
    /\ ~Exists(fs0["B"], p)

OnlyOnB(p) ==
    /\ p \in WalkFolder(fs0["B"], opts)
    /\ ~Exists(fs0["A"], p)

C8_StructureSymmetry ==
    Completed =>
        \A s \in Sides : \A p \in DOMAIN fs[s] :
            IsDir(fs[s], p) => IsDir(fs[Other(s)], p)

(***************************************************************************)
(* C9. Error continuation, as claimed: a run in which a file copy failed   *)
(* still ends with its log written under both roots.                       *)
(***************************************************************************)
C9_ErrorContinuation ==
    (pc \in {"done", "aborted"} /\ raised = "loop_files") => log_saved = Sides

(***************************************************************************)
(* C9, amended. When a file copy fails the exception leaves sync_folders:  *)
(* the run ends there, the files not yet visited are never visited, the    *)
(* trees stay as the failure left them and no log is written.              *)
(***************************************************************************)
C9_AbortOnCopyFailure ==
    [][raised = "loop_files" =>
          /\ pc = "aborted"
          /\ log_saved = {}
          /\ UNCHANGED <<fs, todo, synced_A_to_B, synced_B_to_A, pc, raised,
                         log_saved>>]_vars

\* A copy to B failed while B held a file, never visited, that A lacks.
C9_Witness ==
    /\ raised = "loop_files"
    /\ synced_B_to_A = <<>>
    /\ \E p \in folderB_files : ~Exists(fs["A"], p)

(***************************************************************************)
(* C10. Missing root: when the command line names a root that does not     *)
(* exist the process ends with exit status 1 before sync_folders is        *)
(* entered, and nothing is created, changed or logged under either root.   *)
(***************************************************************************)
C10_MissingRoot ==
    (entry = "main" /\ \E s \in Sides : ~Exists(fs0[s], Root)) =>
        /\ pc = "exit"
        /\ exit_status = 1
        /\ run = 0
        /\ fs = fs0
        /\ log_saved = {}

\* The command line was given a root B that does not exist, root A holding
\* a directory and a file.
C10_Witness ==
    /\ entry = "main"
    /\ pc = "exit"
    /\ ~Exists(fs["B"], Root)
    /\ \E p \in DOMAIN fs["A"] : Len(p) = 2

(***************************************************************************)
(* C11. Log artifacts are never overwritten: a completed run's log is a    *)
(* file neither root held when the run began, and every file that was in   *)
(* the .sync_logs directory of a root when the run began is there          *)
(* unchanged, also when the run before completed in the same clock second. *)
(***************************************************************************)
C11_LogsNeverOverwritten ==
    /\ Completed =>
          \A s \in Sides : ~Exists(fs0[s], <<SyncLogs, log_filename>>)
    /\ \A s \in Sides : \A p \in DOMAIN fs0[s] :
          (InSyncLogs(p) /\ IsFile(fs0[s], p)) =>
              (Exists(fs[s], p) /\ fs[s][p] = fs0[s][p])

(***************************************************************************)
(* C12. Log duplication: after a completed run the run's log is a file     *)
(* under A/.sync_logs and under B/.sync_logs with the same content, the    *)
(* run's record, and .sync_logs is a directory under both roots, also      *)
(* where it was missing when the run began.                                *)
(***************************************************************************)
C12_LogDuplication ==
    Completed =>
        LET path == <<SyncLogs, log_filename>>
        IN  /\ \A s \in Sides : IsDir(fs[s], <<SyncLogs>>) /\ IsFile(fs[s], path)
            /\ fs["A"][path].data = fs["B"][path].data
            /\ fs["A"][path].data.who = "log"

\* A completed run that copied a file, over roots that both lacked the
\* reserved directory.
C12_Witness ==
    /\ Completed
    /\ \A s \in Sides : ~Exists(fs0[s], <<SyncLogs>>)
    /\ synced_A_to_B # <<>>

(***************************************************************************)
(* C13. Phase ordering within one run: a file list is taken only when both *)
(* loop_folder passes have visited all their directories; a file is copied *)
(* only after both lists are taken; while files are copied from A to B no  *)
(* file under A has changed, and once the pass from B to A has begun no    *)
(* file is copied to B; the log is written only when both passes have      *)
(* visited all their files.                                                *)
(***************************************************************************)
\* The files of a tree that are not run logs of the model's runs.
UserFiles(tree) ==
    {<<q, tree[q]>> : q \in {r \in DOMAIN tree : tree[r].kind = "file"
                                                   /\ tree[r].data.who # "log"}}

NoLogYet == log_filename = <<>> /\ log_saved = {}

NoCopyYet ==
    /\ synced_A_to_B = <<>> /\ synced_B_to_A = <<>>
    /\ \A s \in Sides : UserFiles(fs[s]) = UserFiles(fs0[s])

PhaseOrder ==
    /\ pc \in {"mirrorAB", "mirrorBA"} =>
          folderA_files = {} /\ folderB_files = {} /\ NoCopyYet /\ NoLogYet
    /\ pc = "copyAB" =>
          /\ synced_B_to_A = <<>>
          /\ UserFiles(fs["A"]) = UserFiles(fs0["A"])
          /\ NoLogYet
    /\ pc = "copyBA" => NoLogYet

PhaseStep ==
    /\ (folderA_files' # folderA_files \/ folderB_files' # folderB_files) =>
          \/ pc = "mirrorBA" /\ pending = {} /\ pc' = "copyAB"
          \/ pc \in {"start", "done"} /\ pc' = "mirrorAB"
    /\ (pc = "mirrorAB" /\ pc' # pc) =>
          \/ pending = {} /\ pc' = "mirrorBA"
          \/ pc' = "aborted"
    /\ (pc = "mirrorBA" /\ pc' # pc) =>
          \/ pending = {} /\ pc' = "copyAB"
          \/ pc' = "aborted"
    /\ (pc = "copyAB" /\ pc' # pc) =>
          \/ todo = {} /\ pc' = "copyBA"
          \/ pc' = "aborted"
    /\ (pc = "copyBA" /\ pc' # pc) =>
          \/ todo = {} /\ pc' \in {"done", "aborted"}
          \/ pc' = "aborted" /\ log_filename' = <<>>
    /\ UserFiles(fs'["B"]) # UserFiles(fs["B"]) => pc = "copyAB"
    /\ UserFiles(fs'["A"]) # UserFiles(fs["A"]) => pc = "copyBA"
    /\ log_filename' \notin {<<>>, log_filename} => (pc = "copyBA" /\ todo = {})

C13_PhaseOrdering == []PhaseOrder /\ [][PhaseStep]_vars

\* A completed run that made a directory under B and copied a file in
\* each direction.
C13_Witness ==
    /\ Completed
    /\ \E p \in DOMAIN fs["B"] : IsDir(fs["B"], p) /\ ~Exists(fs0["B"], p)
    /\ synced_A_to_B # <<>>
    /\ synced_B_to_A # <<>>

(***************************************************************************)
(* C14. No bounce-back within a run: a path at which the pass from A to B  *)
(* created or replaced a file under B has no decision of the pass from B   *)
(* to A in the same run, and no path has a decision in both directions.    *)
(***************************************************************************)
\* The paths at which root s holds a file it did not hold, or held
\* otherwise, when the run began.
WrittenAt(s) ==
    {p \in DOMAIN fs[s] : /\ IsFile(fs[s], p)
                          /\ fs[s][p].data.who # "log"
                          /\ (p \notin DOMAIN fs0[s] \/ fs0[s][p] # fs[s][p])}

C14_NoBounceBack ==
    /\ Decided(synced_A_to_B) \cap Decided(synced_B_to_A) = {}
    /\ WrittenAt("B") \cap Decided(synced_B_to_A) = {}

\* A completed run whose pass from A to B replaced a file under B that
\* the pass from B to A then visited.
C14_Witness ==
    /\ Completed
    /\ \E p \in folderB_files :
          /\ p \in WrittenAt("B")
          /\ <<p, "more recent">> \in {synced_A_to_B[i] : i \in DOMAIN synced_A_to_B}

(***************************************************************************)
(* C15. Decision justification: a decision (file, "new") is recorded by a  *)
(* step before which the target path did not exist; a decision (file,      *)
(* "more recent") by a step before which, with sync_most_recent set, the   *)
(* target existed and the source's modification time was strictly greater  *)
(* than the target's; no other status is recorded, and a step before which *)
(* a file's two copies had equal modification times records no decision    *)
(* for it.                                                                 *)
(***************************************************************************)
Justified(synced, syncedNext, src, dst) ==
    Len(syncedNext) > Len(synced) =>
        LET file == syncedNext[Len(syncedNext)][1]
            status == syncedNext[Len(syncedNext)][2]
        IN  /\ Len(syncedNext) = Len(synced) + 1
            /\ SubSeq(syncedNext, 1, Len(synced)) = synced
            /\ IsFile(fs[src], file)
            /\ \/ status = "new" /\ ~Exists(fs[dst], file)
               \/ /\ status = "more recent"
                  /\ opts.sync_most_recent
                  /\ Exists(fs[dst], file)
                  /\ GetMtime(fs[src], file) > GetMtime(fs[dst], file)
            /\ ~ (/\ Exists(fs[dst], file)
                  /\ GetMtime(fs[src], file) = GetMtime(fs[dst], file))

\* The file of todo the step visits has equal times under both roots.
VisitsEqualTimes(src, dst) ==
    \E file \in todo \ todo' :
        /\ IsFile(fs[src], file) /\ IsFile(fs[dst], file)
        /\ GetMtime(fs[src], file) = GetMtime(fs[dst], file)

C15_DecisionJustification ==
    [][/\ Justified(synced_A_to_B, synced_A_to_B', "A", "B")
       /\ Justified(synced_B_to_A, synced_B_to_A', "B", "A")
       /\ (pc = "copyAB" /\ VisitsEqualTimes("A", "B")) =>
              (synced_A_to_B' = synced_A_to_B /\ fs' = fs)
       /\ (pc = "copyBA" /\ VisitsEqualTimes("B", "A")) =>
              (synced_B_to_A' = synced_B_to_A /\ fs' = fs)]_vars

\* With sync_most_recent, a run has recorded a "new" decision from A to B
\* and a "more recent" decision from B to A.
C15_Witness ==
    /\ opts.sync_most_recent
    /\ \E i \in DOMAIN synced_A_to_B : synced_A_to_B[i][2] = "new"
    /\ \E i \in DOMAIN synced_B_to_A : synced_B_to_A[i][2] = "more recent"

(***************************************************************************)
(* C16. Traversal termination with links: over a finite tree, also one     *)
(* whose symbolic links to directories form a cycle, walk_folder and       *)
(* loop_folder return; neither visits a link or anything beneath one, so   *)
(* no path beneath a link is in file_paths and no directory is made under  *)
(* folderB for a path beneath a link.                                      *)
(***************************************************************************)
\* No name of p before the last is a link of the tree.
NoLinkAbove(tree, p) ==
    \A n \in 1..(Len(p) - 1) : IsDir(tree, SubSeq(p, 1, n))

NoDescentIntoLinks ==
    /\ \A p \in pending : IsDir(fs["A"], p) /\ NoLinkAbove(fs["A"], p)
    /\ \A f \in folderA_files : f \in DOMAIN fs["A"] /\ NoLinkAbove(fs["A"], f)
    /\ \A p \in DOMAIN fs["B"] :
          p \in DOMAIN fs0["B"] \/ (p \in DOMAIN fs["A"] /\ NoLinkAbove(fs["A"], p))

C16_LinkTraversalTerminates ==
    /\ []NoDescentIntoLinks
    /\ (pc = "walk_folder") ~> (pc = "walked")
    /\ (pc = "loop_folder") ~> (pc \in {"mirrored", "aborted"})

\* Both functions have returned over a tree whose links form cycles (d/up
\* to the root, l1 and l2 to each other); the link ld to a directory has
\* its directory under folderB and the file of d is listed.
C16_Witness ==
    /\ pc = "mirrored"
    /\ <<NameD, NameUp>> \in Links(fs["A"])
    /\ <<NameL1>> \in Links(fs["A"])
    /\ <<NameLd>> \in Links(fs["A"]) /\ IsDir(fs["B"], <<NameLd>>)
    /\ <<NameD, NameF>> \in folderA_files

(***************************************************************************)
(* C17. Structure Mirror idempotence: when every directory under root A is *)
(* a directory under root B and the other way round, the two loop_folder   *)
(* passes return without making a directory and both trees are as they     *)
(* were when the run began.                                                *)
(***************************************************************************)
StructuresMatch(f) ==
    \A s \in Sides : \A p \in DOMAIN f[s] :
        IsDir(f[s], p) => IsDir(f[Other(s)], p)

C17_MirrorIdempotence ==
    (StructuresMatch(fs0) /\ (pc \in {"mirrorAB", "mirrorBA"} \/ raised = "loop_folder")) =>
        /\ fs = fs0
        /\ raised = "none"

\* Both passes have visited all their directories, a directory and one
\* inside it among them, over trees whose directories matched.
C17_Witness ==
    /\ pc = "mirrorBA"
    /\ pending = {}
    /\ StructuresMatch(fs0)
    /\ \E p \in DOMAIN fs0["A"] : Len(p) = 2 /\ IsDir(fs0["A"], p)

VisibleOnBoth == WalkFolder(fs["A"], opts) \cap WalkFolder(fs["B"], opts)

\* Root s held the strictly more recent of the two files at p.
MoreRecentAt(s, p) ==
    /\ IsFile(fs0[s], p) /\ IsFile(fs0[Other(s)], p)
    /\ GetMtime(fs0[s], p) > GetMtime(fs0[Other(s)], p)

C19_RecencyConvergence ==
    (Completed /\ opts.sync_most_recent) =>
        \A p \in VisibleOnBoth :
            /\ GetMtime(fs["A"], p) = GetMtime(fs["B"], p)
            /\ \A s \in Sides :
                  MoreRecentAt(s, p) =>
                      /\ fs[s][p] = fs0[s][p]
                      /\ fs[Other(s)][p] = fs0[s][p]

\* A completed run with sync_most_recent over a file whose copy under B
\* was the more recent one.
C19_Witness ==
    /\ Completed
    /\ opts.sync_most_recent
    /\ \E p \in VisibleOnBoth : MoreRecentAt("B", p)

(***************************************************************************)
(* C20. No overwrite by default: in a run without sync_most_recent every   *)
(* file a root held when the run began is there with its content and       *)
(* modification time, every file that is new under a root is at a path     *)
(* where the root held nothing and has a decision "new" towards that root, *)
(* and no ignored file is new under a root.  The run's own log, which      *)
(* the copy passes do not write, is left aside.                            *)
(***************************************************************************)
\* The files under root s other than the log this run has written.
FilesExceptOwnLog(s) ==
    {p \in DOMAIN fs[s] : IsFile(fs[s], p) /\ p # <<SyncLogs, log_filename>>}

====
